---- MODULE Spec2Model ----
(***************************************************************************)
(* The stock screener front end: the request life cycle of the App         *)
(* component (handleSubmit / pushHistory / recall / clear), the API        *)
(* wrapper postJSON, the history list's clear button and the timers that   *)
(* drive the simulated progress steps.                                     *)
(*                                                                         *)
(* The repository holds two revisions of the App component; the variable   *)
(* `app` says which one is mounted:                                        *)
(*   "App.jsx"  - src/frontend/src/App.jsx (state `analysis`, onClear)     *)
(*   "part_001" - src/unnamed/part_001 (state `data`, `feedback`,          *)
(*                `activeStep`, quick examples, no onClear)                *)
(*                                                                         *)
(* JavaScript values are tagged records.  A string is either plain text    *)
(* (field txt) or the JSON text of a value (field json, with the indent    *)
(* JSON.stringify was given): JSON.parse succeeds on the second kind only. *)
(***************************************************************************)
EXTENDS Integers, Sequences, FiniteSets, TLC

VARIABLES
    app,        \* which revision of App is mounted
    query,      \* useState query: a sequence of characters
    data,       \* part_001: useState data
    analysis,   \* App.jsx: useState analysis
    loading,    \* useState loading
    error,      \* useState error (a JS string)
    history,    \* useState history: sequence of entries, as rendered
    feedback,   \* part_001: useState feedback
    activeStep, \* part_001: useState activeStep
    visible,    \* part_003: useState visible of FeedbackSteps
    storage,    \* localStorage["screener_history_v1"]: NoItem or a JS string
    inflight,   \* the pending queryAgent calls, each with its closure
    timers,     \* pending setTimeout callbacks, in firing order
    dateNow,    \* the last Date.now() reading used as an entry id
    gen,        \* number of accepted submits so far
    run,        \* number of progress runs started so far
    cleared,    \* ids of the entries that were in the log at a clear
    pushCount,  \* pushes since the in-memory log was last empty
    nzIn,       \* normalisation harness: the value and unwrap level tried
    nzOut       \* normalisation harness: results for string and for object

vars == <<app, query, data, analysis, loading, error, history, feedback,
          activeStep, visible, storage, inflight, timers, dateNow, gen,
          run, cleared, pushCount, nzIn, nzOut>>

-----------------------------------------------------------------------------
(* Bounds of the model *)

\* accepted submits explored in one behaviour
MaxSubmits == 2
\* pushes explored by the history specification
MaxPushes == 32

(* Program constants *)

\* App.jsx:23 / part_001:23  .slice(0, 30)
HistoryCap == 30
\* part_001:55  (idx + 1) * 800
StepDelay == 800
\* part_003:59  setTimeout(() => setVisible(false), 2000)
HideDelay == 2000
\* granularity of the model's clock: a divisor of the program's delays
TimeUnit == StepDelay \div 2

-----------------------------------------------------------------------------
(* JavaScript values *)

Undefined == [t |-> "undefined"]
Null == [t |-> "null"]
Bool(b) == [t |-> "boolean", b |-> b]
Num(n) == [t |-> "number", n |-> n]
\* a string that is not valid JSON text
Str(s) == [t |-> "string", txt |-> s]
Obj(f) == [t |-> "object", f |-> f]
Arr(a) == [t |-> "array", a |-> a]

IsString(v) == v.t = "string"
IsJsonText(v) == v.t = "string" /\ "json" \in DOMAIN v
IsContainer(v) == (v.t = "object" /\ DOMAIN v.f # {}) \/ (v.t = "array" /\ v.a # <<>>)

\* JSON.stringify(v, null, indent): the indent shows only in a non-empty
\* object or array
Stringify(v, indent) ==
    [t |-> "string", json |-> v, indent |-> IF IsContainer(v) THEN indent ELSE 0]

\* JSON.parse(s) returns a value exactly when s is JSON text, and throws otherwise
CanParse(s) == IsJsonText(s)
JSONParse(s) == s.json

\* typeof v === 'object' (true of null and of arrays)
TypeofObject(v) == v.t \in {"object", "array", "null"}

\* ToBoolean
Truthy(v) ==
    CASE v.t \in {"undefined", "null"} -> FALSE
      [] v.t = "boolean" -> v.b
      [] v.t = "number" -> v.n # 0
      [] v.t = "string" -> ~("txt" \in DOMAIN v /\ v.txt = "")
      [] OTHER -> TRUE

\* a || b
Or(a, b) == IF Truthy(a) THEN a ELSE b

\* a ?? b
Coalesce(a, b) == IF a.t \in {"undefined", "null"} THEN b ELSE a

\* o?.k : undefined unless o is an object that has the key
Get(o, k) == IF o.t = "object" /\ k \in DOMAIN o.f THEN o.f[k] ELSE Undefined

\* String(v), as new Error(v).message computes it
ToStr(v) ==
    CASE v.t = "string" -> v
      [] v.t = "number" -> Str(ToString(v.n))
      [] v.t = "boolean" -> Str(IF v.b THEN "true" ELSE "false")
      [] v.t = "null" -> Str("null")
      [] v.t = "undefined" -> Str("")
      [] v.t = "object" -> Str("[object Object]")
      [] OTHER -> Str("[array]")

-----------------------------------------------------------------------------
(* Strings of characters: the query text *)

IsSpace(c) == c \in {" ", "\t", "\n"}

RECURSIVE TrimStart(_)
TrimStart(s) ==
    IF s # <<>> /\ IsSpace(Head(s)) THEN TrimStart(Tail(s)) ELSE s

RECURSIVE TrimEnd(_)
TrimEnd(s) ==
    IF s # <<>> /\ IsSpace(s[Len(s)]) THEN TrimEnd(SubSeq(s, 1, Len(s) - 1)) ELSE s

\* a validation that forgets to trim: if (!query)
TrimForgotten(s) == s

\* String.prototype.trim
Trim(s) == TrimEnd(TrimStart(s))

-----------------------------------------------------------------------------
(* The API wrapper: src/frontend/src/api/agentApi.js *)

\* a response body that res.json() rejects
NotJson == [t |-> "notjson"]

\* Response.ok of the fetch API
ResOk(status) == status >= 200 /\ status <= 299

\* postJSON(path, data): what the awaited call resolves to, given what the
\* network did.  resp is [kind |-> "reject", message] when fetch rejects and
\* [kind |-> "http", status, body] otherwise.  The result has no `content` key.
postJSON(resp) ==
    IF resp.kind = "reject"
    THEN [ok |-> FALSE, error |-> Or(resp.message, Str("Network error")),
          data |-> Undefined, raw |-> Undefined]
    ELSE LET payload == IF resp.body = NotJson THEN Null ELSE resp.body
             first == Coalesce(Get(payload, "analysis"), payload)
             content == IF IsString(first) /\ CanParse(first)
                        THEN JSONParse(first) ELSE first
         IN IF ~ResOk(resp.status)
            THEN [ok |-> FALSE,
                  error |-> Or(Get(payload, "detail"),
                               Str("HTTP " \o ToString(resp.status))),
                  data |-> Undefined, raw |-> Undefined]
            ELSE [ok |-> TRUE, error |-> Undefined, data |-> content, raw |-> payload]

\* queryAgent(prompt)
queryAgent(resp) == postJSON(resp)

-----------------------------------------------------------------------------
(* The App component: pure parts *)

\* Array.prototype.slice(from, to) on a sequence (0-based, end excluded)
Slice(s, from, to) ==
    SubSeq(s, from + 1, IF to < Len(s) THEN to ELSE Len(s))

\* a push that forgets the cap: [entry, ...history]
pushHistoryUncapped(h, entry) == <<entry>> \o h

\* pushHistory: the next log, given the log the closure holds
pushHistory(h, entry) == Slice(<<entry>> \o h, 0, HistoryCap)

\* the load effect: const raw = getItem(...); if (raw) setHistory(JSON.parse(raw))
\* (storage only ever holds what pushHistory wrote or nothing, so the parse
\* succeeds; App.jsx guards it with a try/catch, part_001 does not)
NoItem == Null
LoadHistory(raw) ==
    IF Truthy(raw) /\ CanParse(raw) /\ JSONParse(raw).t = "array"
    THEN JSONParse(raw).a ELSE <<>>

\* an unwrap chain that tests for presence: res.data?.data ?? res.data ?? null
ApiDataNullish(res) ==
    Coalesce(Coalesce(Coalesce(Get(res.data, "data"), res.data), Undefined), Null)

\* part_001:45  res.data?.data || res.data || res.content || null
ApiData(res) ==
    Or(Or(Or(Get(res.data, "data"), res.data), Undefined), Null)

\* part_001:46  apiData?.feedback_steps || []
StepsOf(apiData) == Or(Get(apiData, "feedback_steps"), Arr(<<>>))

\* App.jsx:44-51  res.content ?? res.raw ?? '', stringified when an object
ContentOf(res) ==
    LET c == Coalesce(Coalesce(Undefined, res.raw), Str(""))
    IN IF TypeofObject(c) THEN Stringify(c, 2) ELSE c

\* throw new Error(res.error || "Agent error") ... setError(err.message || "Failed ...")
AgentError == IF app = "App.jsx" THEN Str("agent error") ELSE Str("Agent error")
FailureMessage(res) ==
    Or(ToStr(Or(res.error, AgentError)), Str("Failed to get analysis."))

\* the message of the validation error
ValidationMessage ==
    IF app = "App.jsx" THEN Str("Please enter a query.")
    ELSE Str("Please enter a company name or query.")

\* the empty result of each revision
EmptyResult == IF app = "App.jsx" THEN Str("") ELSE Null
Result == IF app = "App.jsx" THEN analysis ELSE data

-----------------------------------------------------------------------------
(* Timers *)

\* setTimeout: callbacks fire by due time, and by creation order among equals
RECURSIVE SetTimeout(_, _)
SetTimeout(q, t) ==
    IF q = <<>> \/ Head(q).left > t.left THEN <<t>> \o q
    ELSE <<Head(q)>> \o SetTimeout(Tail(q), t)

\* steps.forEach((_, idx) => setTimeout(() => setActiveStep(idx + 1), (idx + 1) * 800))
RECURSIVE ScheduleSteps(_, _, _, _)
ScheduleSteps(q, n, idx, r) ==
    IF idx >= n THEN q
    ELSE ScheduleSteps(
             SetTimeout(q, [left |-> (idx + 1) * StepDelay, idx |-> idx,
                            run |-> r, kind |-> "step"]),
             n, idx + 1, r)

-----------------------------------------------------------------------------
(* FeedbackSteps: the progress indicator of part_001 *)

\* part_001:119  {feedback.length > 0 && <FeedbackSteps .../>}: the indicator
\* is mounted while the stage list is a non-empty list (rendering a stage
\* list that is not a list throws, and leaves no indicator)
Mounted(fb) == fb.t = "array" /\ fb.a # <<>>

\* part_003:58  activeStep >= steps.length && steps.length > 0
Terminal(step, fb) == step >= Len(fb.a) /\ Len(fb.a) > 0

\* part_003:59  the pending setVisible(false)
HideTimer(r) == [left |-> HideDelay, idx |-> 0, run |-> r, kind |-> "hide"]

\* part_003:60  clearTimeout(timer), the cleanup of the effect
ClearHide(q) == SelectSeq(q, LAMBDA t : t.kind # "hide")

\* part_003:54-64  what a render of App does to the indicator: unmounting
\* runs the cleanup and forgets visible; mounting starts with visible true;
\* the effect runs on mount and when activeStep or steps.length changed
FeedbackStepsEffect(oldStep, oldFb, oldVisible, newStep, newFb, q, r) ==
    IF ~Mounted(newFb)
    THEN [visible |-> TRUE, timers |-> ClearHide(q)]
    ELSE IF Mounted(oldFb) /\ oldStep = newStep /\ Len(oldFb.a) = Len(newFb.a)
    THEN [visible |-> oldVisible, timers |-> q]
    ELSE IF Terminal(newStep, newFb)
    THEN [visible |-> IF Mounted(oldFb) THEN oldVisible ELSE TRUE,
          timers |-> SetTimeout(ClearHide(q), HideTimer(r))]
    ELSE [visible |-> TRUE, timers |-> ClearHide(q)]

\* part_003:74  `Step ${i + 1}`, for the 1-based position i
StepName(i) == Str("Step " \o ToString(i))

\* part_003:84-86  what the catch block and the last branch return
StepFallback(s, i) == [stage |-> StepName(i), detail |-> ToStr(s)]

\* part_003:70-87  one stage entry made displayable; a JSON.parse that
\* throws and a property read of null are caught
ParseStep(s, i) ==
    IF s.t = "string"
    THEN IF ~CanParse(s) \/ JSONParse(s).t \in {"null", "undefined"}
         THEN StepFallback(s, i)
         ELSE [stage |-> Or(Get(JSONParse(s), "stage"), StepName(i)),
               detail |-> Or(Get(JSONParse(s), "detail"), s)]
    ELSE IF TypeofObject(s)
    THEN IF s.t = "null"
         THEN StepFallback(s, i)
         ELSE [stage |-> Or(Get(s, "stage"), StepName(i)),
               detail |-> Or(Get(s, "detail"), Stringify(s, 0))]
    ELSE StepFallback(s, i)

\* part_003:69  steps.map(...) over a list of stages
parsedSteps(steps) == [i \in 1..Len(steps) |-> ParseStep(steps[i], i)]

-----------------------------------------------------------------------------
(* Inputs: what the user types and what the network answers *)

\* part_001:140  the quick-example tickers explored
Tickers == {"AAPL"}
\* part_001:144  `Give me a summary of ${ticker} and its recent news.`
Summary(ticker) == <<"Give me a summary of ", ticker, " and its recent news.">>

\* texts typed into the input
QueryTexts == {<<>>, <<" ">>, <<" ", "A", " ">>}

Report1 == Obj([ticker |-> Str("AAPL"), feedback_steps |-> Arr(<<Str("Fetching data")>>)])
Report2 ==
    Obj([ticker |-> Str("TSLA"),
         feedback_steps |-> Arr(<<Str("Fetching data"), Str("Scoring")>>)])

\* what the network answers to one request
Responses ==
    { [kind |-> "reject", message |-> Str("Failed to fetch")],
      [kind |-> "http", status |-> 500, body |-> NotJson],
      [kind |-> "http", status |-> 500, body |-> Obj([detail |-> Str("rate limited")])],
      [kind |-> "http", status |-> 500, body |-> Obj([detail |-> Str("")])],
      [kind |-> "http", status |-> 422,
       body |-> Obj([detail |-> Obj([msg |-> Str("field required")])])],
      [kind |-> "http", status |-> 200, body |-> Obj([error |-> Str("bad ticker")])],
      [kind |-> "http", status |-> 200, body |-> Obj([analysis |-> Stringify(Report2, 0)])],
      [kind |-> "http", status |-> 200, body |-> Obj([data |-> Report1])] }


-----------------------------------------------------------------------------
(* The operations *)

Ids(h) == {h[i].id : i \in 1..Len(h)}

\* a form whose controls are never disabled
SubmitAlways == TRUE

\* the form controls carry disabled={loading}
SubmitEnabled == ~loading

\* handleSubmit up to the await: validation, then the reset and the request
handleSubmit ==
    /\ SubmitEnabled
    /\ IF Trim(query) = <<>>
       THEN /\ error' = ValidationMessage
            /\ UNCHANGED <<data, analysis, loading, feedback, activeStep,
                           visible, timers, inflight, gen>>
       ELSE /\ gen < MaxSubmits
            /\ loading' = TRUE
            /\ error' = Str("")
            /\ IF app = "App.jsx"
               THEN /\ analysis' = Str("")
                    /\ UNCHANGED <<data, feedback, activeStep, visible, timers>>
               ELSE /\ data' = Null
                    /\ feedback' = Arr(<<>>)
                    /\ activeStep' = 0
                    /\ visible' = FeedbackStepsEffect(activeStep, feedback, visible,
                                                      0, Arr(<<>>), timers, run).visible
                    /\ timers' = FeedbackStepsEffect(activeStep, feedback, visible,
                                                     0, Arr(<<>>), timers, run).timers
                    /\ UNCHANGED analysis
            /\ gen' = gen + 1
            /\ inflight' = inflight \cup
                   {[gen |-> gen + 1, query |-> query, history |-> history]}
    /\ UNCHANGED <<app, query, history, storage, dateNow,
                   run, cleared, pushCount, nzIn, nzOut>>

\* handleSubmit after the await in part_001: the request req settles with the
\* network's answer resp; quota says whether localStorage.setItem throws
SettleV2(req, resp, quota) ==
    LET res == queryAgent(resp)
        apiData == ApiData(res)
        steps == StepsOf(apiData)
        entry == [id |-> dateNow + 1, query |-> req.query, result |-> apiData]
        next == pushHistory(req.history, entry)
    IN /\ loading' = FALSE
       /\ IF ~res.ok
          THEN /\ error' = FailureMessage(res)
               /\ UNCHANGED <<data, feedback, activeStep, visible, timers, run,
                              history, storage, dateNow, pushCount>>
          ELSE /\ feedback' = steps
               /\ activeStep' = 0
               /\ run' = run + 1
               /\ IF steps.t # "array"
                  THEN /\ error' = Str("steps.forEach is not a function")
                       /\ visible' = TRUE
                       /\ UNCHANGED <<data, timers, history, storage, dateNow,
                                      pushCount>>
                  ELSE /\ timers' = FeedbackStepsEffect(
                                        activeStep, feedback, visible, 0, steps,
                                        ScheduleSteps(timers, Len(steps.a), 0, run + 1),
                                        run + 1).timers
                       /\ visible' = FeedbackStepsEffect(
                                         activeStep, feedback, visible, 0, steps,
                                         timers, run + 1).visible
                       /\ data' = apiData
                       /\ history' = next
                       /\ dateNow' = dateNow + 1
                       /\ pushCount' = IF req.history = <<>> THEN 1 ELSE pushCount + 1
                       /\ IF quota
                          THEN /\ error' = Str("QuotaExceededError")
                               /\ UNCHANGED storage
                          ELSE /\ storage' = Stringify(Arr(next), 0)
                               /\ UNCHANGED error
       /\ UNCHANGED analysis

\* handleSubmit after the await in App.jsx
SettleV1(req, resp, quota) ==
    LET res == queryAgent(resp)
        content == ContentOf(res)
        entry == [id |-> dateNow + 1, query |-> req.query, result |-> content]
        next == pushHistory(req.history, entry)
    IN /\ loading' = FALSE
       /\ IF ~res.ok
          THEN /\ error' = FailureMessage(res)
               /\ UNCHANGED <<analysis, history, storage, dateNow, pushCount>>
          ELSE /\ analysis' = content
               /\ history' = next
               /\ dateNow' = dateNow + 1
               /\ pushCount' = IF req.history = <<>> THEN 1 ELSE pushCount + 1
               /\ storage' = IF quota THEN storage ELSE Stringify(Arr(next), 0)
               /\ UNCHANGED error
       /\ UNCHANGED <<data, feedback, activeStep, visible, timers, run>>

\* a handleSubmit without the finally block: a failure leaves loading on
SettleWithoutFinally(req, resp, quota) ==
    /\ inflight' = inflight \ {req}
    /\ IF queryAgent(resp).ok
       THEN IF app = "App.jsx" THEN SettleV1(req, resp, quota)
                               ELSE SettleV2(req, resp, quota)
       ELSE /\ error' = FailureMessage(queryAgent(resp))
            /\ UNCHANGED <<data, analysis, loading, history, feedback,
                           activeStep, visible, storage, timers, dateNow,
                           run, pushCount>>
    /\ UNCHANGED <<app, query, gen, cleared, nzIn, nzOut>>

\* the awaited queryAgent call of the pending submit req resolves
SettleWith(req, resp, quota) ==
    /\ inflight' = inflight \ {req}
    /\ IF app = "App.jsx" THEN SettleV1(req, resp, quota)
                          ELSE SettleV2(req, resp, quota)
    /\ UNCHANGED <<app, query, gen, cleared, nzIn, nzOut>>

Settle ==
    \E req \in inflight, resp \in Responses, quota \in BOOLEAN :
        SettleWith(req, resp, quota)

\* onChange of the input, which carries disabled={loading}
setQuery ==
    /\ ~loading
    /\ \E text \in QueryTexts : query' = text
    /\ UNCHANGED <<app, data, analysis, loading, error, history, feedback,
                   activeStep, visible, storage, inflight, timers, dateNow,
                   gen, run, cleared, pushCount, nzIn, nzOut>>

\* part_001: a quick-example button (never disabled)
quickExample ==
    /\ app = "part_001"
    /\ \E ticker \in Tickers : query' = Summary(ticker)
    /\ UNCHANGED <<app, data, analysis, loading, error, history, feedback,
                   activeStep, visible, storage, inflight, timers, dateNow,
                   gen, run, cleared, pushCount, nzIn, nzOut>>

\* a recall that submits the recalled query again
handleRecallResubmits ==
    /\ \E i \in 1..Len(history) :
          /\ query' = history[i].query
          /\ inflight' = inflight \cup
                 {[gen |-> gen, query |-> history[i].query, history |-> history]}
    /\ loading' = TRUE
    /\ error' = Str("")
    /\ UNCHANGED <<app, data, analysis, history, feedback, activeStep,
                   visible, storage, timers, dateNow, gen, run,
                   cleared, pushCount, nzIn, nzOut>>

\* onRecall of a rendered history item: handleRecall in App.jsx,
\* (item) => setQuery(item.query) in part_001
handleRecall ==
    /\ \E i \in 1..Len(history) :
          /\ query' = history[i].query
          /\ analysis' = IF app = "App.jsx" THEN history[i].result ELSE analysis
    /\ UNCHANGED <<app, data, loading, error, history, feedback, activeStep,
                   visible, storage, inflight, timers, dateNow, gen, run,
                   cleared, pushCount, nzIn, nzOut>>

\* the onClear prop: App.jsx passes one, part_001 leaves the default no-op
onClear ==
    IF app = "App.jsx"
    THEN history' = <<>> /\ storage' = NoItem
    ELSE UNCHANGED history

\* HistoryList.handleClear: the button is rendered when items.length > 0
handleClear ==
    /\ history # <<>>
    /\ storage' = NoItem
    /\ onClear
    /\ cleared' = cleared \cup Ids(history) \cup Ids(LoadHistory(storage))
    /\ pushCount' = IF history' = <<>> THEN 0 ELSE pushCount
    /\ UNCHANGED <<app, query, data, analysis, loading, error, feedback,
                   activeStep, visible, inflight, timers, dateNow, gen, run,
                   nzIn, nzOut>>

\* a due setTimeout callback runs: setActiveStep(idx + 1)
fireTimer ==
    /\ timers # <<>>
    /\ Head(timers).left <= 0
    /\ IF Head(timers).kind = "hide"
       THEN /\ visible' = FALSE
            /\ timers' = Tail(timers)
            /\ UNCHANGED activeStep
       ELSE LET fx == FeedbackStepsEffect(activeStep, feedback, visible,
                                         Head(timers).idx + 1, feedback,
                                         Tail(timers), run)
            IN /\ activeStep' = Head(timers).idx + 1
               /\ timers' = fx.timers
               /\ visible' = fx.visible
    /\ UNCHANGED <<app, query, data, analysis, loading, error, history,
                   feedback, storage, inflight, dateNow, gen, run,
                   cleared, pushCount, nzIn, nzOut>>

\* time passes while no callback is due
tick ==
    /\ timers # <<>>
    /\ Head(timers).left > 0
    /\ timers' = [i \in 1..Len(timers) |->
                     [timers[i] EXCEPT !.left = @ - TimeUnit]]
    /\ UNCHANGED <<app, query, data, analysis, loading, error, history,
                   feedback, activeStep, visible, storage, inflight, dateNow,
                   gen, run, cleared, pushCount, nzIn, nzOut>>

\* the page is reloaded: fresh component state, pending work is gone, and
\* the load effect reads the persisted log
mount ==
    /\ query' = IF app = "App.jsx" THEN Summary("AAPL") ELSE <<>>
    /\ data' = Null
    /\ analysis' = Str("")
    /\ loading' = FALSE
    /\ error' = Str("")
    /\ feedback' = Arr(<<>>)
    /\ activeStep' = 0
    /\ visible' = TRUE
    /\ history' = LoadHistory(storage)
    /\ pushCount' = Len(LoadHistory(storage))
    /\ inflight' = {}
    /\ timers' = <<>>
    /\ UNCHANGED <<app, storage, dateNow, gen, run, cleared, nzIn, nzOut>>

-----------------------------------------------------------------------------
(* The life-cycle specification *)

NoHarness == [level |-> "none"]

Init ==
    /\ app \in {"App.jsx", "part_001"}
    /\ query = IF app = "App.jsx" THEN Summary("AAPL") ELSE <<>>
    /\ data = Null
    /\ analysis = Str("")
    /\ loading = FALSE
    /\ error = Str("")
    /\ history = <<>>
    /\ feedback = Arr(<<>>)
    /\ activeStep = 0
    /\ visible = TRUE
    /\ storage = NoItem
    /\ inflight = {}
    /\ timers = <<>>
    /\ dateNow = 0
    /\ gen = 0
    /\ run = 0
    /\ cleared = {}
    /\ pushCount = 0
    /\ nzIn = NoHarness
    /\ nzOut = NoHarness

Next ==
    \/ handleSubmit
    \/ Settle
    \/ setQuery
    \/ quickExample
    \/ handleRecall
    \/ handleClear
    \/ fireTimer
    \/ tick
    \/ mount

Spec == Init /\ [][Next]_vars

\* the life cycle when every pending request eventually resolves or rejects
SpecLive == Spec /\ WF_vars(Settle)

-----------------------------------------------------------------------------
(* The history specification: pushes and clears alone, up to MaxPushes *)

\* pushHistory called from a render whose closure holds the current log
pushStep ==
    /\ dateNow < MaxPushes
    /\ \E quota \in BOOLEAN :
          LET entry == [id |-> dateNow + 1, query |-> <<"A">>, result |-> EmptyResult]
              next == pushHistory(history, entry)
          IN /\ history' = next
             /\ storage' = IF quota THEN storage ELSE Stringify(Arr(next), 0)
    /\ dateNow' = dateNow + 1
    /\ pushCount' = IF history = <<>> THEN 1 ELSE pushCount + 1
    /\ UNCHANGED <<app, query, data, analysis, loading, error, feedback,
                   activeStep, visible, inflight, timers, gen, run, cleared, nzIn, nzOut>>

NextHistory ==
    \/ pushStep
    \/ handleClear

SpecHistory == Init /\ [][NextHistory]_vars

-----------------------------------------------------------------------------
(* The normalisation specification: one payload, at one unwrap level, given
   once as JSON text and once as the parsed value *)

Levels == {"raw", "analysis", "data", "data.data", "content"}

\* the body that carries x at the level: the body itself, body.analysis,
\* body.data (res.data.data), body.data.data, body.content
Embed(level, x) ==
    CASE level = "raw" -> x
      [] level = "analysis" -> Obj([analysis |-> x])
      [] level = "data" -> Obj([data |-> x])
      [] level = "data.data" -> Obj([data |-> Obj([data |-> x])])
      [] OTHER -> Obj([content |-> x])

NzValues ==
    { Report1, Report2,
      Obj([ticker |-> Str("MSFT")]),
      Obj([results |-> Arr(<<Obj([company |-> Str("NVDA")])>>)]),
      Obj([summary |-> Str("ok"), disclaimer |-> Str("none")]),
      Arr(<<Num(1)>>) }

\* the canonical result handleSubmit displays for a 2xx response with this body
Normalize(body) ==
    LET res == queryAgent([kind |-> "http", status |-> 200, body |-> body])
    IN IF app = "App.jsx" THEN ContentOf(res) ELSE ApiData(res)

normalize ==
    /\ nzOut = NoHarness
    /\ nzOut' = [asString |-> Normalize(Embed(nzIn.level, Stringify(nzIn.value, 0))),
                 asObject |-> Normalize(Embed(nzIn.level, nzIn.value))]
    /\ UNCHANGED <<app, query, data, analysis, loading, error, history,
                   feedback, activeStep, visible, storage, inflight, timers,
                   dateNow, gen, run, cleared, pushCount, nzIn>>

InitNormalize ==
    /\ app \in {"App.jsx", "part_001"}
    /\ query = IF app = "App.jsx" THEN Summary("AAPL") ELSE <<>>
    /\ data = Null
    /\ analysis = Str("")
    /\ loading = FALSE
    /\ error = Str("")
    /\ history = <<>>
    /\ feedback = Arr(<<>>)
    /\ activeStep = 0
    /\ visible = TRUE
    /\ storage = NoItem
    /\ inflight = {}
    /\ timers = <<>>
    /\ dateNow = 0
    /\ gen = 0
    /\ run = 0
    /\ cleared = {}
    /\ pushCount = 0
    /\ nzIn \in [level : Levels, value : NzValues]
    /\ nzOut = NoHarness

NextNormalize == normalize

SpecNormalize == InitNormalize /\ [][NextNormalize]_vars

-----------------------------------------------------------------------------
(* The payload specification: one accepted submit is pending, and its request
   settles with a 2xx response whose body is drawn from PayloadBodies *)

\* feedback_steps whose entries are null, text, JSON text and a number
OddStages ==
    Arr(<<Null, Str("warming up"),
          Stringify(Obj([stage |-> Str("Fetch"), detail |-> Str("prices")]), 0),
          Stringify(Null, 0), Num(4)>>)

PayloadBodies ==
    { NotJson, Null, Str(""), Str("plain text"), Num(0), Num(7), Bool(FALSE),
      Obj(<<>>), Arr(<<>>), Stringify(Report1, 0),
      Report1, Report2,
      Obj([ticker |-> Str("MSFT")]),
      Obj([analysis |-> Stringify(Report2, 0)]),
      Obj([analysis |-> Str("not json")]),
      Obj([analysis |-> Null]),
      Obj([data |-> Report1]),
      Obj([data |-> Obj([data |-> Report1])]),
      Obj([data |-> Num(0)]),
      Obj([data |-> Str("")]),
      Obj([data |-> Bool(FALSE)]),
      Obj([data |-> Null]),
      Obj([data |-> Obj([ticker |-> Str("NVDA")])]),
      Obj([content |-> Report1]),
      Obj([feedback_steps |-> Null]),
      Obj([feedback_steps |-> Str("Fetching data")]),
      Obj([feedback_steps |-> Num(3)]),
      Obj([feedback_steps |-> Obj([stage |-> Str("Fetch")])]),
      Obj([feedback_steps |-> OddStages]) }

\* the 2xx response under test
PayloadResponse == [kind |-> "http", status |-> 200, body |-> nzIn.value]

\* the pending request settles with the response under test
settlePayload ==
    /\ nzIn.level = "body"
    /\ \E req \in inflight, quota \in BOOLEAN :
          SettleWith(req, PayloadResponse, quota)

\* the state right after handleSubmit accepted the query "A" on a fresh page
InitPayload ==
    /\ app \in {"App.jsx", "part_001"}
    /\ query = <<"A">>
    /\ data = Null
    /\ analysis = Str("")
    /\ loading = TRUE
    /\ error = Str("")
    /\ history = <<>>
    /\ feedback = Arr(<<>>)
    /\ activeStep = 0
    /\ visible = TRUE
    /\ storage = NoItem
    /\ inflight = {[gen |-> 1, query |-> <<"A">>, history |-> <<>>]}
    /\ timers = <<>>
    /\ dateNow = 0
    /\ gen = 1
    /\ run = 0
    /\ cleared = {}
    /\ pushCount = 0
    /\ nzIn \in [level : {"body"}, value : PayloadBodies]
    /\ nzOut = NoHarness

NextPayload == settlePayload

SpecPayload == InitPayload /\ [][NextPayload]_vars

-----------------------------------------------------------------------------
(* The claims *)

\* C1: once a new progress run has started, no activeStep update of an
\* earlier run's timers is applied: every timer that fires was scheduled by
\* the latest run.
C1_NoStaleStepUpdate ==
    [][fireTimer => Head(timers).run = run]_vars

\* C2: the history log never holds more than 30 entries and is ordered
\* most-recent-first; after n pushes it holds exactly the min(n, 30) most
\* recently pushed entries, the newest in front (so the 31st push drops the
\* first-pushed entry).
C2_HistoryCapped ==
    /\ Len(history) <= HistoryCap
    /\ Len(history) = (IF pushCount < HistoryCap THEN pushCount ELSE HistoryCap)
    /\ \A i \in 1..Len(history) : history[i].id = dateNow - (i - 1)

\* 31 pushes have been made into a log that was empty: 30 entries are left
C2_Witness ==
    /\ pushCount = HistoryCap + 1
    /\ Len(history) = HistoryCap
    /\ history[1].id = HistoryCap + 1
    /\ history[HistoryCap].id = 2

\* C3: a clear empties the in-memory log and the persisted blob, so that a
\* load right after it (and after a restart) returns an empty log.
C3_ClearEmptiesLog ==
    [][handleClear => (history' = <<>> /\ LoadHistory(storage') = <<>>)]_vars

\* C4: clearing is irreversible: an entry that was in the log at a clear is
\* never again in the in-memory log or in the persisted blob.
C4_ClearIrreversible ==
    cleared \cap (Ids(history) \cup Ids(LoadHistory(storage))) = {}

\* the query is empty or holds white space only
Blank(q) == \A i \in 1..Len(q) : IsSpace(q[i])

\* C5: submitting an empty or whitespace-only query sets the validation
\* message and changes nothing else: no request, loading, result, progress
\* state, history log and persisted blob as before.
C5_BlankSubmitOnlySetsError ==
    [][(handleSubmit /\ Blank(query)) =>
          /\ error' = ValidationMessage
          /\ UNCHANGED <<query, data, analysis, loading, history, feedback,
                         activeStep, storage, inflight, timers, gen, run>>]_vars

\* a whitespace-only query was rejected while a log and a result were there
C5_Witness ==
    /\ error = ValidationMessage
    /\ query = <<" ">>
    /\ ~loading
    /\ inflight = {}
    /\ history # <<>>
    /\ Result # EmptyResult

\* the response is a network failure or carries a non-success status
TransportFailure(resp) == resp.kind = "reject" \/ ~ResOk(resp.status)

\* C6: when a submission settles as failed (network failure or non-success
\* status) the displayed result is empty and the settling records no history
\* entry, in memory or persisted, whatever the user did while it was pending.
C6_FailureLeavesResultEmpty ==
    [][\A req \in inflight, resp \in Responses, quota \in BOOLEAN :
          (SettleWith(req, resp, quota) /\ TransportFailure(resp)) =>
              /\ Result' = EmptyResult
              /\ history' = history
              /\ storage' = storage]_vars

\* the detail of a response body, undefined when the body has none
DetailOf(body) == IF body = NotJson THEN Undefined ELSE Get(body, "detail")
HttpStatusMessage(status) == Str("HTTP " \o ToString(status))

\* C7: for a non-success response the error shown is the body's detail
\* string when the body has one, and "HTTP <status>" otherwise.
C7_ErrorIsDetailOrStatus ==
    [][\A req \in inflight, resp \in Responses, quota \in BOOLEAN :
          (SettleWith(req, resp, quota) /\ resp.kind = "http" /\ ~ResOk(resp.status)) =>
              error' = IF DetailOf(resp.body).t = "string"
                       THEN DetailOf(resp.body)
                       ELSE HttpStatusMessage(resp.status)]_vars

\* C8: a response whose payload has an error field is handled as failed even
\* with a success status: an error is shown, the result stays empty and no
\* history entry is recorded.
C8_ErrorFieldFails ==
    [][\A req \in inflight, resp \in Responses, quota \in BOOLEAN :
          (SettleWith(req, resp, quota) /\ resp.kind = "http"
               /\ resp.body # NotJson /\ Get(resp.body, "error") # Undefined) =>
              /\ ~loading'
              /\ error' # Str("")
              /\ Result' = EmptyResult
              /\ history' = history
              /\ storage' = storage]_vars

\* C9: at most one request is in flight, it is the latest submission, and
\* loading is true exactly while it is pending.
C9_SingleRequestInFlight ==
    /\ Cardinality(inflight) <= 1
    /\ loading <=> inflight # {}
    /\ \A req \in inflight : req.gen = gen

\* a second submission is pending after the first one settled
C9_Witness ==
    /\ loading
    /\ gen = 2
    /\ Cardinality(inflight) = 1
    /\ history # <<>>

\* C10: a JSON-encoded string at an unwrap level normalises to the same
\* canonical result as the parsed value placed at that level.
C10_StringAndObjectAgree ==
    nzOut # NoHarness => nzOut.asString = nzOut.asObject

\* the payloads that are empty or absent: no body, a body that is not JSON,
\* an empty string
EmptyPayloads == {NotJson, Null, Str("")}

\* C11: whatever the shape of a 2xx response's payload, the submission ends
\* with loading off and an empty error message, the stage list that is
\* displayed is a list whose entries all get a stage name, and an empty or
\* absent payload yields the empty canonical result (storage writes that succeed are the case considered).
C11_AnyPayloadSucceeds ==
    [][\A req \in inflight :
          SettleWith(req, PayloadResponse, FALSE)
              => /\ ~loading'
                 /\ error' = Str("")
                 /\ feedback'.t = "array"
                 /\ \A i \in 1..Len(feedback'.a) :
                        parsedSteps(feedback'.a)[i].stage.t = "string"
                 /\ (nzIn.value \in EmptyPayloads => Result' = EmptyResult)]_vars

\* C12: no storage failure is surfaced: a load that finds no persisted blob
\* yields an empty log and no error, and when the storage write of a push
\* throws, the submission still ends with loading off and an empty error
\* message and the in-memory log starts with the new entry.
C12_StorageFailureSilent ==
    [][/\ mount => (error' = Str("") /\ (storage = NoItem => history' = <<>>))
       /\ \A req \in inflight, resp \in Responses :
             (SettleWith(req, resp, TRUE) /\ queryAgent(resp).ok)
                 => /\ ~loading'
                    /\ error' = Str("")
                    /\ history' # <<>>
                    /\ Head(history').id = dateNow'
                    /\ Head(history').query = req.query]_vars

\* the number of stages of the stage list that is displayed
Total == IF feedback.t = "array" THEN Len(feedback.a) ELSE 0

\* C13: in every reachable state 0 <= activeStep <= total, where total is
\* the number of stages of the displayed stage list.
C13_ActiveStepWithinTotal == 0 <= activeStep /\ activeStep <= Total

\* the levels of the unwrap order, read off what queryAgent returned:
\* res.data.data, res.data, res.content (a field postJSON never sets)
UnwrapLevels(res) == <<Get(res.data, "data"), res.data, Undefined>>

\* what queryAgent returned, as the object handleSubmit holds
RawOf(res) == Obj([ok |-> Bool(TRUE), data |-> res.data, raw |-> res.raw])

\* a level exists when it is neither undefined nor null
Exists(v) == v.t \notin {"undefined", "null"}

\* the first level that exists, and raw itself when none does
FirstExisting(res) ==
    LET lv == UnwrapLevels(res)
    IN IF \E i \in 1..Len(lv) : Exists(lv[i])
       THEN lv[CHOOSE i \in 1..Len(lv) :
                   Exists(lv[i]) /\ \A j \in 1..(i - 1) : ~Exists(lv[j])]
       ELSE RawOf(res)

\* the first level that is truthy, and null when none is
FirstTruthy(res) ==
    LET lv == UnwrapLevels(res)
    IN IF \E i \in 1..Len(lv) : Truthy(lv[i])
       THEN lv[CHOOSE i \in 1..Len(lv) :
                   Truthy(lv[i]) /\ \A j \in 1..(i - 1) : ~Truthy(lv[j])]
       ELSE Null

\* the submission of part_001 has settled and reached setData
PayloadDisplayed ==
    /\ app = "part_001"
    /\ nzIn.level = "body"
    /\ inflight = {}
    /\ feedback.t = "array"

\* C14 (as stated): the payload displayed is res.data.data when it exists,
\* else res.data when it exists, else res.content when it exists, else what
\* queryAgent returned itself; a level that exists but is falsy is selected.
C14_FirstExistingLevelSelected ==
    PayloadDisplayed => data = FirstExisting(queryAgent(PayloadResponse))

\* C14 (amended): the payload displayed by part_001 is the first truthy one
\* of res.data.data, res.data and res.content, and null when none is truthy;
\* a level that exists but is falsy (empty string, 0, false) is skipped.
C14_FirstTruthyLevelSelected ==
    PayloadDisplayed => data = FirstTruthy(queryAgent(PayloadResponse))

\* the body {"data": 0} has settled: the falsy res.data.data was skipped and
\* res.data is displayed
C14_Witness ==
    /\ PayloadDisplayed
    /\ nzIn.value = Obj([data |-> Num(0)])
    /\ data = Obj([data |-> Num(0)])

\* C15: each submission that a 2xx response settles appends exactly one
\* entry at the front of the log: the new log is the new entry followed by
\* the log as it was (cut to the cap); the entry's query is the text that
\* was submitted, whatever the query field holds by now, and its result is
\* the canonical result that is displayed.
C15_OneEntryPerSuccess ==
    [][\A req \in inflight, resp \in Responses, quota \in BOOLEAN :
          (SettleWith(req, resp, quota) /\ queryAgent(resp).ok)
              => /\ history' # <<>>
                 /\ Head(history').query = req.query
                 /\ Head(history').result = Result'
                 /\ Head(history').id \notin Ids(history)
                 /\ Tail(history') = Slice(history, 0, HistoryCap - 1)]_vars

\* no activeStep update is pending
NoStepPending(q) == \A i \in 1..Len(q) : q[i].kind # "step"

\* the stage list of the latest submit is displayed and no submit followed
RunShown == Mounted(feedback) /\ ~loading

\* C16: a run starts with activeStep = 0; while its n stages are displayed
\* and no further submit was made, every transition of activeStep raises it
\* by exactly 1 and stays within n, the next transition of the run being due
\* 800 time-units later; once the updates are done, activeStep is n and
\* stays n.
C16_StepsAdvanceOneByOne ==
    [][/\ \A req \in inflight, resp \in Responses, quota \in BOOLEAN :
             (SettleWith(req, resp, quota) /\ app = "part_001" /\ queryAgent(resp).ok)
                 => activeStep' = 0
       /\ (fireTimer /\ Head(timers).kind = "step" /\ RunShown)
             => /\ activeStep' = activeStep + 1
                /\ activeStep' <= Total
                /\ \A i \in 1..Len(timers') :
                      ( /\ timers'[i].kind = "step"
                        /\ timers'[i].run = Head(timers).run
                        /\ timers'[i].idx = Head(timers).idx + 1 )
                          => timers'[i].left = StepDelay
       /\ (RunShown' /\ NoStepPending(timers')) => activeStep' = Total']_vars

\* the terminal state of the progress: activeStep = total and total > 0
AtTotal == Mounted(feedback) /\ activeStep = Total

\* a setVisible(false) is pending
HidePending(q) == \E i \in 1..Len(q) : q[i].kind = "hide"

\* C17: a hide is pending only while activeStep = total (total > 0), and it
\* starts with the full delay of 2000; the indicator is hidden only by a
\* pending hide whose delay has elapsed; when the progress leaves the
\* terminal state while a hide is pending, the hide is cancelled and the
\* indicator is visible; the indicator is never hidden while
\* activeStep < total.
C17_HideOnlyAfterSettleDelay ==
    [][/\ HidePending(timers') => AtTotal'
       /\ (HidePending(timers') /\ ~HidePending(timers))
             => \A i \in 1..Len(timers') :
                   timers'[i].kind = "hide" => timers'[i].left = HideDelay
       /\ (visible /\ ~visible')
             => /\ fireTimer
                /\ Head(timers).kind = "hide"
                /\ Head(timers).left <= 0
                /\ AtTotal
       /\ (HidePending(timers) /\ ~AtTotal')
             => (~HidePending(timers') /\ visible')
       /\ (activeStep' < Total') => visible']_vars

\* C18: recalling a history entry sets the query text to the stored query of
\* an entry of the log, changes the displayed result (if at all) only to
\* that entry's stored result, issues no request, and leaves loading, error,
\* the log, the persisted blob, the progress state and the timers unchanged.
C18_RecallIsLocalReplay ==
    [][handleRecall
          => /\ \E i \in 1..Len(history) :
                   /\ query' = history[i].query
                   /\ \/ Result' = Result
                      \/ Result' = history[i].result
             /\ UNCHANGED <<loading, error, history, storage, inflight, gen,
                            dateNow, feedback, activeStep, visible, timers,
                            run>>]_vars

\* App.jsx: after a submit that failed with HTTP 500 and emptied the result,
\* the entry recorded earlier for " A " was recalled: its query and result
\* are back on display, the error stays, nothing is loading
C18_Witness ==
    /\ app = "App.jsx"
    /\ history # <<>>
    /\ query = <<" ", "A", " ">>
    /\ history[1].query = query
    /\ analysis = history[1].result
    /\ analysis # Str("")
    /\ error = Str("HTTP 500")
    /\ ~loading
    /\ inflight = {}

\* C19: every accepted submit turns loading on and clears the error and the
\* result; every settling of a request, on the success path and on every
\* failure path, turns loading off; and when every pending request
\* eventually resolves or rejects, loading is always followed by a state
\* where loading is off and submitting is enabled again.
C19_SubmitEventuallySettles ==
    /\ [][(handleSubmit /\ ~Blank(query))
             => /\ loading'
                /\ error' = Str("")
                /\ Result' = EmptyResult
                /\ inflight' # {}]_vars
    /\ [][\A req \in inflight, resp \in Responses, quota \in BOOLEAN :
             SettleWith(req, resp, quota) => ~loading']_vars
    /\ (loading ~> (~loading /\ SubmitEnabled))

\* two submits have settled, the first on the success path and the second
\* with a rejected request: loading is off again and the error is shown
C19_Witness ==
    /\ gen = 2
    /\ ~loading
    /\ inflight = {}
    /\ error = Str("Failed to fetch")
    /\ history # <<>>
    /\ SubmitEnabled

=============================================================================
